---- MODULE Spec2Model ----
(***************************************************************************)
(* Pool: a thread-pooled asynchronous job library (CThreadPool).           *)
(*                                                                         *)
(* The model follows src/Source/Pool.cpp: the task deque m_TaskList, the   *)
(* critical section m_csTaskList, the two Win32 semaphores m_hSemaphores   *)
(* (TS_QUIT, TS_RUN), the worker threads running WorkerThreadProc, and the *)
(* public operations RunTask, WaitForAllTasks, PurgeAllPendingTasks, Flush *)
(* and Release called from client threads.                                 *)
(*                                                                         *)
(* A task callback is modelled by what the pool sees of it: the            *)
(* TASK_RETURN it gives back, chosen nondeterministically at every         *)
(* invocation.                                                             *)
(***************************************************************************)
EXTENDS Integers, Sequences, FiniteSets, TLC

\* ------------------------------------------------------------- bounds
MaxThreads == 2      \* thread_count ranges over 0..MaxThreads
NumClients == 2      \* threads calling the public operations
MaxTasks == 2        \* tasks submitted during one run of a pool with workers
MaxQueued == 3       \* tasks submitted during one run of a pool without workers
MaxRetry == 1        \* non-TR_OK returns one task may give in total
MaxSleeps == 2       \* Sleep(1) calls counted in one WaitForAllTasks
IntBits == 3         \* width of int, DWORD and UINT (32 in the build)
SizeBits == 5        \* width of size_t (64 in the build)

\* ---------------------------------------------------- program constants
TS_QUIT == 0
TS_RUN == 1
NULL == 0
SIZE_MAX == 2147483647
\* INFINITE is 0xFFFFFFFF; the largest integer TLC holds stands for it
INFINITE == 2147483647

TR_OK == "TR_OK"
TR_RERUN == "TR_RERUN"
TR_REQUEUE == "TR_REQUEUE"
TASK_RETURN == {TR_OK, TR_RERUN, TR_REQUEUE}

Threads == 1..MaxThreads
Clients == 1..NumClients
TaskLimit == IF MaxTasks > MaxQueued THEN MaxTasks ELSE MaxQueued
Calls == 1..TaskLimit
TaskIds == Calls \X (0..(TaskLimit - 1))

VARIABLES
    thread_count,    \* m_hThreads.size()
    m_TaskList,      \* the deque of STaskInfo
    m_csTaskList,    \* owner of the critical section, NULL when free
    m_hSemaphores,   \* count of the TS_QUIT and of the TS_RUN semaphore
    wpc,             \* position of each worker in WorkerThreadProc
    task,            \* each worker's local STaskInfo
    tmp,             \* value a worker has loaded from *m_pActionRef
    cpc,             \* position of each client in the operation it is in
    ccall,           \* the RunTask call a client is in (its blockwait)
    blockwait,       \* the local blockwait of each RunTask call
    it,              \* Flush's iterator, an index into m_TaskList
    ftmp,            \* value Flush has loaded from *m_pActionRef
    ncalls,          \* RunTask calls made so far
    max_tasks,       \* tasks the clients submit at most during this run
    \* ---- history, read by the properties only
    callinfo,        \* per RunTask call: numtimes, block, returned
    stat,            \* per task: counts of what happened to it
    purged,          \* tasks discarded by a clear() of PurgeAllPendingTasks
    logging,         \* whether the callbacks append to log
    log,             \* tasks in the order their callbacks were invoked
    fsnap,           \* m_TaskList as Flush found it
    flog,            \* tasks the running (or last) Flush has invoked
    waitinfo,        \* per client in WaitForAllTasks: its milliseconds, the
                     \* Sleep(1) calls it has made, and ncalls when it began
    created,         \* the arguments of the Create that made the pool, and
                     \* what GetNumThreads has returned last
    ahead            \* per task: the tasks that were in m_TaskList when it
                     \* was last requeued and are still there

pvars == <<thread_count, m_TaskList, m_csTaskList, m_hSemaphores, wpc, task,
           tmp, cpc, ccall, blockwait, it, ftmp, ncalls, max_tasks>>
hvars == <<callinfo, stat, purged, logging, log, fsnap, flog, waitinfo, created, ahead>>
vars == <<pvars, hvars>>
pvars_but_cpc == <<thread_count, m_TaskList, m_csTaskList, m_hSemaphores, wpc, task,
                   tmp, ccall, blockwait, it, ftmp, ncalls, max_tasks>>

Workers == 1..thread_count

\* ----------------------------------------------------------- STaskInfo
\* m_Call stands for m_Task and m_Param[0..1]: the callback and the two
\* parameters of the RunTask call that made the task.
STaskInfo(call, task_number, pactionref) ==
    [m_Call |-> call, m_TaskNumber |-> task_number, m_pActionRef |-> pactionref]

\* STaskInfo task(nullptr, nullptr, nullptr, 0, nullptr)
NoTask == STaskInfo(NULL, 0, NULL)

Id(t) == <<t.m_Call, t.m_TaskNumber>>

SeqToSet(s) == {s[i] : i \in 1..Len(s)}

Ids(list) == [i \in 1..Len(list) |-> Id(list[i])]

\* ---------------------------------------------------------- semaphores
\* faulty variant of ReleaseSemaphore: a release past max clears the count
ReleaseSemaphore_Clearing(count, n, max) ==
    IF count + n <= max THEN count + n ELSE 0

\* ReleaseSemaphore(h, n, NULL) on a semaphore created with maximum max:
\* the call fails and leaves the count alone when it would pass max.
ReleaseSemaphore(count, n, max) ==
    IF count + n <= max THEN count + n ELSE count

\* WaitForMultipleObjects(..., bWaitAll = false, INFINITE) - WAIT_OBJECT_0:
\* the lowest index among the signalled handles; -1 while none is.
WaitForMultipleObjects(sem) ==
    IF sem[TS_QUIT] > 0 THEN TS_QUIT
    ELSE IF sem[TS_RUN] > 0 THEN TS_RUN
    ELSE -1

\* ---------------------------------------------------------- the deque
\* faulty variant of GetNextTask: front() without pop_front()
GetNextTask_NoPop(list) ==
    IF list # <<>>
    THEN [ret |-> TRUE, task |-> Head(list), list |-> list]
    ELSE [ret |-> FALSE, task |-> NoTask, list |-> list]

\* faulty variant of GetNextTask: back() is returned, the front is popped
GetNextTask_BackPopFront(list) ==
    IF list # <<>>
    THEN [ret |-> TRUE, task |-> list[Len(list)], list |-> Tail(list)]
    ELSE [ret |-> FALSE, task |-> NoTask, list |-> list]

\* faulty variant of GetNextTask: the newest task is taken
GetNextTask_Back(list) ==
    IF list # <<>>
    THEN [ret |-> TRUE, task |-> list[Len(list)], list |-> SubSeq(list, 1, Len(list) - 1)]
    ELSE [ret |-> FALSE, task |-> NoTask, list |-> list]

\* bool GetNextTask(STaskInfo &task)
GetNextTask(list) ==
    IF list # <<>>
    THEN [ret |-> TRUE, task |-> Head(list), list |-> Tail(list)]
    ELSE [ret |-> FALSE, task |-> NoTask, list |-> list]

\* faulty variant of push_back: the task goes to the front
push_back_Front(list, t) == <<t>> \o list

\* m_TaskList.push_back(task)
push_back(list, t) == Append(list, t)

\* faulty variant of FlushTask: the loop walks from the back
FlushTask_Reverse(list, i) == list[Len(list) + 1 - i]

\* const STaskInfo *task = &(*it) in the loop of Flush
FlushTask(list, i) == list[i]

\* faulty variant of clear: the first task survives
clear_KeepsFront(list) == IF list = <<>> THEN <<>> ELSE <<Head(list)>>

\* m_TaskList.clear()
clear(list) == <<>>

\* faulty variant of PushTasks: every task is given the number 0
RECURSIVE PushTasks_SameNumber(_, _, _, _, _)
PushTasks_SameNumber(list, call, i, numtimes, ref) ==
    IF i < numtimes
    THEN PushTasks_SameNumber(push_back(list, STaskInfo(call, 0, ref)), call, i + 1,
                              numtimes, ref)
    ELSE list

\* the loop of RunTask: numtimes push_back's of STaskInfo(func, .., i, ref)
RECURSIVE PushTasks(_, _, _, _, _)
PushTasks(list, call, i, numtimes, ref) ==
    IF i < numtimes
    THEN PushTasks(push_back(list, STaskInfo(call, i, ref)), call, i + 1, numtimes, ref)
    ELSE list

\* (*m_pActionRef)++ once per STaskInfo constructed in that loop
CountAfterPush(count, numtimes, ref) ==
    IF ref # NULL THEN count + numtimes ELSE count

\* (*(task.m_pActionRef))-- on a size_t: 0 wraps to the largest size_t
\* (2^64 - 1 in the build; the largest integer TLC holds stands for it)
Decrement(v) == IF v = 0 THEN SIZE_MAX ELSE v - 1

\* faulty variant of RunTaskWaits: block alone decides
RunTaskWaits_BlockOnly(threads, block) == block

\* if (m_hThreads.size() && block) while (blockwait) Sleep(1);
RunTaskWaits(threads, block) == threads > 0 /\ block

\* The worker's local task is not read again once an iteration of the
\* GetNextTask loop has ended: the next GetNextTask overwrites it, or the
\* next wake-up constructs it anew. The model forgets it then.
Dead(pc, t) == IF pc = "get" THEN NoTask ELSE t

\* faulty variant of AfterCallback: TR_RERUN is handled like TR_OK
AfterCallback_NoRerun(ret, t) ==
    IF ret = TR_REQUEUE THEN "requeue"
    ELSE IF t.m_pActionRef # NULL THEN "decr"
    ELSE "get"

\* where WorkerThreadProc goes after a callback has returned ret
AfterCallback(ret, t) ==
    IF ret = TR_RERUN THEN "call"
    ELSE IF ret = TR_REQUEUE THEN "requeue"
    ELSE IF t.m_pActionRef # NULL THEN "decr"
    ELSE "get"

\* -------------------------------------------------------------- history
NoStat == [inv |-> 0, rerun |-> 0, requeue |-> 0, done |-> 0, deq |-> 0,
           decW |-> 0, decF |-> 0, fl |-> 0, frq |-> 0]

\* Create(thread_count) observed by nobody: the pools whose thread count
\* is all that matters of their creation
NoCreate == [form |-> "any", threads_per_core |-> 0, cores |-> 0,
             core_count_adjustment |-> 0, thread_count |-> 0, got |-> -1]

\* a client that is not in WaitForAllTasks
NoWait == [milliseconds |-> 0, slept |-> 0, from |-> 0]

\* the values of milliseconds the clients pass to WaitForAllTasks
Timeouts == {1, INFINITE}

\* the returns a callback may give at its next invocation
NoAhead == [id \in TaskIds |-> {}]

\* the task id is pushed back onto list: what is there now is ahead of it
Requeued(a, id, list) == [a EXCEPT ![id] = SeqToSet(Ids(list))]

\* the tasks of gone have left m_TaskList (popped or cleared)
Taken(a, gone) == [id \in TaskIds |-> a[id] \ gone]

Returns(id) ==
    {TR_OK} \cup (IF stat[id].rerun + stat[id].requeue < MaxRetry
                  THEN {TR_RERUN, TR_REQUEUE} ELSE {})

Invoked(st, ret) ==
    [st EXCEPT !.inv = @ + 1,
               !.rerun = @ + (IF ret = TR_RERUN THEN 1 ELSE 0),
               !.requeue = @ + (IF ret = TR_REQUEUE THEN 1 ELSE 0),
               !.done = @ + (IF ret = TR_OK THEN 1 ELSE 0)]

\* the invocation was made by Flush, which got ret back
Flushed(st, ret) ==
    [st EXCEPT !.fl = @ + 1,
               !.frq = @ + (IF ret = TR_REQUEUE THEN 1 ELSE 0)]

\* a callback of the logging test harness appends its task to log
Logged(l, id) == IF logging THEN Append(l, id) ELSE l

RECURSIVE SumTo(_, _)
SumTo(f, n) == IF n = 0 THEN 0 ELSE f[n] + SumTo(f, n - 1)

\* tasks submitted so far
TasksMade == SumTo([k \in Calls |-> callinfo[k].numtimes], ncalls)

Released == \E c \in Clients : cpc[c] \in {"rel_quit", "rel_join", "rel_done"}

\* ---------------------------------------------------------------- Create
\* integer types at the widths IntBits and SizeBits
INT_MAX == 2^(IntBits - 1) - 1
INT_MIN == -(2^(IntBits - 1))
DWORD_MAX == 2^IntBits - 1
SIZE_T_MAX == 2^SizeBits - 1

\* conversion of an int to DWORD, of a DWORD to int, of an int to size_t
\* and of a size_t to UINT
ToDWORD(i) == i % 2^IntBits
ToInt(u) == IF u > INT_MAX THEN u - 2^IntBits ELSE u
ToSizeT(i) == i % 2^SizeBits
ToUINT(n) == n % 2^IntBits

\* std::max<int>(a, b): both arguments converted to int
StdMaxInt(a, b) == IF ToInt(ToDWORD(a)) < ToInt(ToDWORD(b))
                   THEN ToInt(ToDWORD(b)) ELSE ToInt(ToDWORD(a))

\* CThreadPool(threads_per_core, core_count_adjustment) on a machine with
\* dwNumberOfProcessors cores: the thread_count it gives to Initialize.
\* dwNumberOfProcessors + core_count_adjustment is a DWORD sum.
CThreadPool(threads_per_core, dwNumberOfProcessors, core_count_adjustment) ==
    (threads_per_core *
        ToSizeT(StdMaxInt(1, (dwNumberOfProcessors + ToDWORD(core_count_adjustment))
                                 % 2^IntBits))) % 2^SizeBits

\* ---------------------------------------------------------------- Init
\* the pool right after Create(thread_count): Initialize has made the
\* semaphores with count 0 and started the workers, which wait at once.
InitPool(counts, tasks, logs) ==
    /\ thread_count \in counts
    /\ max_tasks = tasks
    /\ logging = logs
    /\ m_TaskList = <<>>
    /\ ahead = NoAhead
    /\ m_csTaskList = NULL
    /\ m_hSemaphores = [s \in {TS_QUIT, TS_RUN} |-> 0]
    /\ wpc = [w \in Threads |-> "parked"]
    /\ task = [w \in Threads |-> NoTask]
    /\ tmp = [w \in Threads |-> 0]
    /\ cpc = [c \in Clients |-> "idle"]
    /\ ccall = [c \in Clients |-> NULL]
    /\ blockwait = [k \in Calls |-> 0]
    /\ it = 0
    /\ ftmp = 0
    /\ ncalls = 0
    /\ callinfo = [k \in Calls |-> [numtimes |-> 0, block |-> FALSE, returned |-> FALSE]]
    /\ stat = [id \in TaskIds |-> NoStat]
    /\ purged = {}
    /\ log = <<>>
    /\ fsnap = <<>>
    /\ flog = <<>>
    /\ waitinfo = [c \in Clients |-> NoWait]

Init == InitPool(0..MaxThreads, MaxTasks, FALSE) /\ created = NoCreate

\* ------------------------------------------------------ WorkerThreadProc
\* WaitForMultipleObjects returns TS_QUIT: break
WorkerQuit(w) ==
    /\ w \in Workers
    /\ wpc[w] = "parked"
    /\ WaitForMultipleObjects(m_hSemaphores) = TS_QUIT
    /\ m_hSemaphores' = [m_hSemaphores EXCEPT ![TS_QUIT] = @ - 1]
    /\ wpc' = [wpc EXCEPT ![w] = "term"]
    /\ UNCHANGED <<thread_count, m_TaskList, m_csTaskList, task, tmp, cpc, ccall,
                   blockwait, it, ftmp, ncalls, max_tasks, hvars>>

\* WaitForMultipleObjects returns TS_RUN: enter the GetNextTask loop
WorkerRun(w) ==
    /\ w \in Workers
    /\ wpc[w] = "parked"
    /\ WaitForMultipleObjects(m_hSemaphores) = TS_RUN
    /\ m_hSemaphores' = [m_hSemaphores EXCEPT ![TS_RUN] = @ - 1]
    /\ wpc' = [wpc EXCEPT ![w] = "get"]
    /\ task' = [task EXCEPT ![w] = NoTask]
    /\ UNCHANGED <<thread_count, m_TaskList, m_csTaskList, tmp, cpc, ccall,
                   blockwait, it, ftmp, ncalls, max_tasks, hvars>>

\* while (GetNextTask(task)): the whole call, under m_csTaskList
WorkerGetNextTask(w) ==
    /\ w \in Workers
    /\ wpc[w] = "get"
    /\ m_csTaskList = NULL
    /\ LET r == GetNextTask(m_TaskList) IN
         /\ m_TaskList' = r.list
         /\ IF r.ret
            THEN /\ task' = [task EXCEPT ![w] = r.task]
                 /\ wpc' = [wpc EXCEPT ![w] = "call"]
                 /\ stat' = [stat EXCEPT ![Id(r.task)].deq = @ + 1]
            ELSE /\ wpc' = [wpc EXCEPT ![w] = "parked"]
                 /\ UNCHANGED <<task, stat>>
    /\ UNCHANGED <<thread_count, m_csTaskList, m_hSemaphores, tmp, cpc, ccall,
                   blockwait, it, ftmp, ncalls, max_tasks, callinfo, purged, logging, log, fsnap, flog>>
    /\ UNCHANGED waitinfo
    /\ UNCHANGED created
    /\ ahead' = Taken(ahead, SeqToSet(Ids(m_TaskList)) \ SeqToSet(Ids(m_TaskList')))

\* ret = task.m_Task(...): one invocation of the do-while loop
WorkerCallback(w) ==
    /\ w \in Workers
    /\ wpc[w] = "call"
    /\ \E ret \in Returns(Id(task[w])) :
         /\ wpc' = [wpc EXCEPT ![w] = AfterCallback(ret, task[w])]
         /\ task' = [task EXCEPT ![w] = Dead(AfterCallback(ret, task[w]), @)]
         /\ stat' = [stat EXCEPT ![Id(task[w])] = Invoked(@, ret)]
    /\ log' = Logged(log, Id(task[w]))
    /\ UNCHANGED logging
    /\ UNCHANGED <<thread_count, m_TaskList, m_csTaskList, m_hSemaphores, tmp,
                   cpc, ccall, blockwait, it, ftmp, ncalls, max_tasks, callinfo, purged, fsnap, flog>>
    /\ UNCHANGED waitinfo
    /\ UNCHANGED created
    /\ UNCHANGED ahead

\* faulty variant of WorkerRequeue: the task is not pushed back
WorkerRequeue_Dropped(w) ==
    /\ w \in Workers
    /\ wpc[w] = "requeue"
    /\ wpc' = [wpc EXCEPT ![w] = "get"]
    /\ task' = [task EXCEPT ![w] = Dead("get", @)]
    /\ UNCHANGED <<thread_count, m_TaskList, m_csTaskList, m_hSemaphores, tmp, cpc, ccall,
                   blockwait, it, ftmp, ncalls, max_tasks, callinfo, stat, purged, logging, log, fsnap, flog,
                   waitinfo, created>>
    /\ ahead' = Requeued(ahead, Id(task[w]), m_TaskList)

\* faulty variant of WorkerRequeue: the requeued task is decremented for
WorkerRequeue_Decrementing(w) ==
    /\ w \in Workers
    /\ wpc[w] = "requeue"
    /\ m_csTaskList = NULL
    /\ m_TaskList' = push_back(m_TaskList, task[w])
    /\ blockwait' = IF task[w].m_pActionRef # NULL
                    THEN [blockwait EXCEPT ![task[w].m_pActionRef] = Decrement(@)]
                    ELSE blockwait
    /\ stat' = [stat EXCEPT ![Id(task[w])].decW =
                   @ + (IF task[w].m_pActionRef # NULL THEN 1 ELSE 0)]
    /\ wpc' = [wpc EXCEPT ![w] = "get"]
    /\ task' = [task EXCEPT ![w] = Dead("get", @)]
    /\ UNCHANGED <<thread_count, m_csTaskList, m_hSemaphores, tmp, cpc, ccall,
                   it, ftmp, ncalls, max_tasks, callinfo, purged, logging, log, fsnap,
                   flog, waitinfo, created>>
    /\ ahead' = Requeued(ahead, Id(task[w]), m_TaskList)

\* ret == TR_REQUEUE: push_back under m_csTaskList, then Sleep(0)
WorkerRequeue(w) ==
    /\ w \in Workers
    /\ wpc[w] = "requeue"
    /\ m_csTaskList = NULL
    /\ m_TaskList' = push_back(m_TaskList, task[w])
    /\ wpc' = [wpc EXCEPT ![w] = "get"]
    /\ task' = [task EXCEPT ![w] = Dead("get", @)]
    /\ UNCHANGED <<thread_count, m_csTaskList, m_hSemaphores, tmp, cpc, ccall,
                   blockwait, it, ftmp, ncalls, max_tasks, callinfo, stat, purged, logging, log, fsnap, flog,
                   waitinfo, created>>
    /\ ahead' = Requeued(ahead, Id(task[w]), m_TaskList)

\* (*(task.m_pActionRef))--, a plain load and a plain store of a size_t
\* that other threads write too: first the load
WorkerDecrementLoad(w) ==
    /\ w \in Workers
    /\ wpc[w] = "decr"
    /\ tmp' = [tmp EXCEPT ![w] = blockwait[task[w].m_pActionRef]]
    /\ wpc' = [wpc EXCEPT ![w] = "decw"]
    /\ UNCHANGED <<thread_count, m_TaskList, m_csTaskList, m_hSemaphores, task, cpc,
                   ccall, blockwait, it, ftmp, ncalls, max_tasks, hvars>>

\* faulty variant of WorkerDecrementStore: the worker leaves its loop
WorkerDecrementStore_Parking(w) ==
    /\ w \in Workers
    /\ wpc[w] = "decw"
    /\ blockwait' = [blockwait EXCEPT ![task[w].m_pActionRef] = Decrement(tmp[w])]
    /\ wpc' = [wpc EXCEPT ![w] = "parked"]
    /\ task' = [task EXCEPT ![w] = Dead("get", @)]
    /\ tmp' = [tmp EXCEPT ![w] = 0]
    /\ stat' = [stat EXCEPT ![Id(task[w])].decW = @ + 1]
    /\ UNCHANGED <<thread_count, m_TaskList, m_csTaskList, m_hSemaphores,
                   cpc, ccall, it, ftmp, ncalls, max_tasks, callinfo, purged, logging, log, fsnap,
                   flog, waitinfo, created>>
    /\ UNCHANGED ahead

\* then the store, then Sleep(0)
WorkerDecrementStore(w) ==
    /\ w \in Workers
    /\ wpc[w] = "decw"
    /\ blockwait' = [blockwait EXCEPT ![task[w].m_pActionRef] = Decrement(tmp[w])]
    /\ wpc' = [wpc EXCEPT ![w] = "get"]
    /\ task' = [task EXCEPT ![w] = Dead("get", @)]
    /\ tmp' = [tmp EXCEPT ![w] = 0]
    /\ stat' = [stat EXCEPT ![Id(task[w])].decW = @ + 1]
    /\ UNCHANGED <<thread_count, m_TaskList, m_csTaskList, m_hSemaphores,
                   cpc, ccall, it, ftmp, ncalls, max_tasks, callinfo, purged, logging, log, fsnap, flog>>
    /\ UNCHANGED waitinfo
    /\ UNCHANGED created
    /\ UNCHANGED ahead

Worker(w) ==
    \/ WorkerQuit(w)
    \/ WorkerRun(w)
    \/ WorkerGetNextTask(w)
    \/ WorkerCallback(w)
    \/ WorkerRequeue(w)
    \/ WorkerDecrementLoad(w)
    \/ WorkerDecrementStore(w)

\* --------------------------------------------------------------- RunTask
\* EnterCriticalSection; the push_back loop; LeaveCriticalSection
RunTaskEnqueue(c, numtimes, block) ==
    /\ cpc[c] = "idle"
    /\ ~Released
    /\ TasksMade + numtimes <= max_tasks
    /\ m_csTaskList = NULL
    /\ LET k == ncalls + 1
           ref == IF block THEN k ELSE NULL
       IN /\ ncalls' = k
          /\ UNCHANGED max_tasks
          /\ ccall' = [ccall EXCEPT ![c] = k]
          /\ m_TaskList' = PushTasks(m_TaskList, k, 0, numtimes, ref)
          /\ blockwait' = [blockwait EXCEPT ![k] = CountAfterPush(0, numtimes, ref)]
          /\ callinfo' = [callinfo EXCEPT ![k] =
                            [numtimes |-> numtimes, block |-> block, returned |-> FALSE]]
    /\ cpc' = [cpc EXCEPT ![c] = "rt_signal"]
    /\ UNCHANGED <<thread_count, m_csTaskList, m_hSemaphores, wpc, task, tmp, it, ftmp,
                   stat, purged, logging, log, fsnap, flog>>
    /\ UNCHANGED waitinfo
    /\ UNCHANGED created
    /\ UNCHANGED ahead

\* if (m_hSemaphores[TS_RUN]) ReleaseSemaphore(TS_RUN, m_hThreads.size());
\* then either the blockwait loop or return true
RunTaskSignal(c) ==
    /\ cpc[c] = "rt_signal"
    /\ m_hSemaphores' =
         IF thread_count > 0
         THEN [m_hSemaphores EXCEPT ![TS_RUN] = ReleaseSemaphore(@, thread_count, thread_count)]
         ELSE m_hSemaphores
    /\ IF RunTaskWaits(thread_count, callinfo[ccall[c]].block)
       THEN /\ cpc' = [cpc EXCEPT ![c] = "rt_wait"]
            /\ UNCHANGED callinfo
            /\ UNCHANGED ccall
       ELSE /\ cpc' = [cpc EXCEPT ![c] = "idle"]
            /\ ccall' = [ccall EXCEPT ![c] = NULL]
            /\ callinfo' = [callinfo EXCEPT ![ccall[c]].returned = TRUE]
    /\ UNCHANGED <<thread_count, m_TaskList, m_csTaskList, wpc, task, tmp,
                   blockwait, it, ftmp, ncalls, max_tasks, stat, purged, logging, log, fsnap, flog>>
    /\ UNCHANGED waitinfo
    /\ UNCHANGED created
    /\ UNCHANGED ahead

\* while (blockwait) Sleep(1); is left when blockwait reads 0; return true
RunTaskReturn(c) ==
    /\ cpc[c] = "rt_wait"
    /\ blockwait[ccall[c]] = 0
    /\ cpc' = [cpc EXCEPT ![c] = "idle"]
    /\ ccall' = [ccall EXCEPT ![c] = NULL]
    /\ callinfo' = [callinfo EXCEPT ![ccall[c]].returned = TRUE]
    /\ UNCHANGED <<thread_count, m_TaskList, m_csTaskList, m_hSemaphores, wpc, task, tmp,
                   blockwait, it, ftmp, ncalls, max_tasks, stat, purged, logging, log,
                   fsnap, flog>>
    /\ UNCHANGED waitinfo
    /\ UNCHANGED created
    /\ UNCHANGED ahead

\* -------------------------------------------------- PurgeAllPendingTasks
\* faulty variant of PurgeAllPendingTasks: the discarded tasks are decremented for
PurgeAllPendingTasks_Decrementing(c) ==
    /\ cpc[c] = "idle"
    /\ ~Released
    /\ m_csTaskList = NULL
    /\ m_TaskList # <<>>
    /\ m_TaskList' = clear(m_TaskList)
    /\ purged' = purged \cup SeqToSet(Ids(m_TaskList))
    /\ blockwait' = [k \in Calls |->
                       blockwait[k] - Cardinality({i \in 1..Len(m_TaskList) :
                                                     m_TaskList[i].m_pActionRef = k})]
    /\ UNCHANGED <<thread_count, m_csTaskList, m_hSemaphores, wpc, task, tmp, cpc, ccall,
                   it, ftmp, ncalls, max_tasks, callinfo, stat, logging, log, fsnap, flog>>
    /\ UNCHANGED waitinfo
    /\ UNCHANGED created
    /\ ahead' = Taken(ahead, SeqToSet(Ids(m_TaskList)) \ SeqToSet(Ids(m_TaskList')))

PurgeAllPendingTasks(c) ==
    /\ cpc[c] = "idle"
    /\ ~Released
    /\ m_csTaskList = NULL
    /\ m_TaskList # <<>>
    /\ m_TaskList' = clear(m_TaskList)
    /\ purged' = purged \cup (SeqToSet(Ids(m_TaskList)) \ SeqToSet(Ids(m_TaskList')))
    /\ UNCHANGED <<thread_count, m_csTaskList, m_hSemaphores, wpc, task, tmp, cpc, ccall,
                   blockwait, it, ftmp, ncalls, max_tasks, callinfo, stat, logging, log, fsnap, flog>>
    /\ UNCHANGED waitinfo
    /\ UNCHANGED created
    /\ ahead' = Taken(ahead, SeqToSet(Ids(m_TaskList)) \ SeqToSet(Ids(m_TaskList')))

\* ----------------------------------------------------------------- Flush
\* faulty variant of FlushEnter: m_csTaskList is not entered
FlushEnter_NoLock(c) ==
    /\ m_csTaskList = NULL
    /\ it' = 1
    /\ fsnap' = IF logging THEN Ids(m_TaskList) ELSE fsnap
    /\ flog' = <<>>
    /\ cpc' = [cpc EXCEPT ![c] = "fl_loop"]
    /\ UNCHANGED <<thread_count, m_TaskList, m_csTaskList, m_hSemaphores, wpc, task, tmp,
                   ccall, blockwait, ftmp, ncalls, max_tasks, callinfo, stat, purged,
                   logging, log, created, ahead>>

\* EnterCriticalSection; it = cbegin(), last_it = cend()
FlushEnter(c) ==
    /\ m_csTaskList = NULL
    /\ m_csTaskList' = c
    /\ it' = 1
    /\ fsnap' = IF logging THEN Ids(m_TaskList) ELSE fsnap
    /\ flog' = <<>>
    /\ cpc' = [cpc EXCEPT ![c] = "fl_loop"]
    /\ UNCHANGED <<thread_count, m_TaskList, m_hSemaphores, wpc, task, tmp, ccall,
                   blockwait, ftmp, ncalls, max_tasks, callinfo, stat, purged, logging, log>>
    /\ UNCHANGED created
    /\ UNCHANGED ahead

Flush(c) ==
    /\ cpc[c] = "idle"
    /\ ~Released
    /\ FlushEnter(c)
    /\ UNCHANGED waitinfo

\* it != last_it: task->m_Task(...), its return value dropped
FlushCallback(c) ==
    /\ cpc[c] = "fl_loop"
    /\ it <= Len(m_TaskList)
    /\ LET t == FlushTask(m_TaskList, it) IN
         /\ \E ret \in Returns(Id(t)) :
              stat' = [stat EXCEPT ![Id(t)] = Flushed(Invoked(@, ret), ret)]
         /\ log' = Logged(log, Id(t))
         /\ UNCHANGED logging
         /\ flog' = Logged(flog, Id(t))
         /\ IF t.m_pActionRef # NULL
            THEN /\ cpc' = [cpc EXCEPT ![c] = "fl_decr"]
                 /\ UNCHANGED it
            ELSE /\ it' = it + 1
                 /\ UNCHANGED cpc
    /\ UNCHANGED <<thread_count, m_TaskList, m_csTaskList, m_hSemaphores, wpc, task, tmp,
                   ccall, blockwait, ftmp, ncalls, max_tasks, callinfo, purged, fsnap>>
    /\ UNCHANGED waitinfo
    /\ UNCHANGED created
    /\ UNCHANGED ahead

\* what a read of *m_pActionRef may give: blockwait is a local of RunTask,
\* so once that call has returned the pointer dangles and the read gives
\* what was last stored there or whatever has since taken its place on
\* the stack (0 stands for that)
Deref(k) == IF callinfo[k].returned THEN {blockwait[k], 0} ELSE {blockwait[k]}

\* (*(task->m_pActionRef))--: the load
FlushDecrementLoad(c) ==
    /\ cpc[c] = "fl_decr"
    /\ ftmp' \in Deref(FlushTask(m_TaskList, it).m_pActionRef)
    /\ cpc' = [cpc EXCEPT ![c] = "fl_decw"]
    /\ UNCHANGED <<thread_count, m_TaskList, m_csTaskList, m_hSemaphores, wpc, task, tmp,
                   ccall, blockwait, it, ncalls, max_tasks, hvars>>

\* the store; it++
FlushDecrementStore(c) ==
    /\ cpc[c] = "fl_decw"
    /\ LET t == FlushTask(m_TaskList, it) IN
         /\ blockwait' = [blockwait EXCEPT ![t.m_pActionRef] = Decrement(ftmp)]
         /\ stat' = [stat EXCEPT ![Id(t)].decF = @ + 1]
    /\ it' = it + 1
    /\ ftmp' = 0
    /\ cpc' = [cpc EXCEPT ![c] = "fl_loop"]
    /\ UNCHANGED <<thread_count, m_TaskList, m_csTaskList, m_hSemaphores, wpc, task, tmp,
                   ccall, ncalls, max_tasks, callinfo, purged, logging, log, fsnap, flog>>
    /\ UNCHANGED waitinfo
    /\ UNCHANGED created
    /\ UNCHANGED ahead

\* it == last_it: m_TaskList.clear(); LeaveCriticalSection
FlushLeave(c) ==
    /\ cpc[c] = "fl_loop"
    /\ it > Len(m_TaskList)
    /\ m_TaskList' = clear(m_TaskList)
    /\ m_csTaskList' = NULL
    /\ it' = 0
    /\ cpc' = [cpc EXCEPT ![c] = "idle"]
    /\ waitinfo' = [waitinfo EXCEPT ![c] = NoWait]
    /\ UNCHANGED <<thread_count, m_hSemaphores, wpc, task, tmp, ccall, blockwait, ftmp,
                   ncalls, max_tasks, callinfo, stat, purged, logging, log, fsnap, flog>>
    /\ UNCHANGED created
    /\ ahead' = Taken(ahead, SeqToSet(Ids(m_TaskList)) \ SeqToSet(Ids(m_TaskList')))

\* ------------------------------------------------------- WaitForAllTasks
\* m_hThreads.size() != 0: enter the loop on m_TaskList.empty()
WaitForAllTasksPoll(c, milliseconds) ==
    /\ cpc[c] = "idle"
    /\ ~Released
    /\ thread_count > 0
    /\ cpc' = [cpc EXCEPT ![c] = "wait"]
    /\ waitinfo' = [waitinfo EXCEPT ![c] =
                      [milliseconds |-> milliseconds, slept |-> 0, from |-> ncalls]]
    /\ UNCHANGED <<pvars_but_cpc, callinfo, stat, purged, logging, log, fsnap, flog>>
    /\ UNCHANGED created
    /\ UNCHANGED ahead

\* !m_TaskList.empty(): Sleep(1), and round the loop again; milliseconds
\* is not read, and m_csTaskList is not taken
WaitForAllTasksSleep(c) ==
    /\ cpc[c] = "wait"
    /\ m_TaskList # <<>>
    /\ waitinfo[c].slept < MaxSleeps
    /\ waitinfo' = [waitinfo EXCEPT ![c].slept = @ + 1]
    /\ UNCHANGED <<pvars, callinfo, stat, purged, logging, log, fsnap, flog>>
    /\ UNCHANGED created
    /\ UNCHANGED ahead

\* m_TaskList.empty(): the loop is left
WaitForAllTasksReturn(c) ==
    /\ cpc[c] = "wait"
    /\ m_TaskList = <<>>
    /\ cpc' = [cpc EXCEPT ![c] = "idle"]
    /\ waitinfo' = [waitinfo EXCEPT ![c] = NoWait]
    /\ UNCHANGED <<pvars_but_cpc, callinfo, stat, purged, logging, log, fsnap, flog>>
    /\ UNCHANGED created
    /\ UNCHANGED ahead

\* faulty variant of WaitForAllTasksFlush: the polling loop whatever
\* m_hThreads.size() is
WaitForAllTasksFlush_Polling(c, milliseconds) ==
    /\ cpc[c] = "idle"
    /\ ~Released
    /\ thread_count = 0
    /\ cpc' = [cpc EXCEPT ![c] = "wait"]
    /\ waitinfo' = [waitinfo EXCEPT ![c] =
                      [milliseconds |-> milliseconds, slept |-> 0, from |-> ncalls]]
    /\ UNCHANGED <<pvars_but_cpc, callinfo, stat, purged, logging, log, fsnap, flog>>
    /\ UNCHANGED created
    /\ UNCHANGED ahead

\* m_hThreads.size() == 0: Flush()
WaitForAllTasksFlush(c, milliseconds) ==
    /\ cpc[c] = "idle"
    /\ ~Released
    /\ thread_count = 0
    /\ FlushEnter(c)
    /\ waitinfo' = [waitinfo EXCEPT ![c] =
                      [milliseconds |-> milliseconds, slept |-> 0, from |-> ncalls]]

\* ------------------------------------------------ Release / ~CThreadPool
\* delete this, while no other thread is inside an operation of the pool.
\* m_hThreads.size() != 0: PurgeAllPendingTasks()
ReleasePurge(c) ==
    /\ \A d \in Clients : cpc[d] = "idle"
    /\ thread_count > 0
    /\ m_csTaskList = NULL
    /\ m_TaskList' = clear(m_TaskList)
    /\ purged' = purged \cup (SeqToSet(Ids(m_TaskList)) \ SeqToSet(Ids(m_TaskList')))
    /\ cpc' = [cpc EXCEPT ![c] = "rel_quit"]
    /\ UNCHANGED <<thread_count, m_csTaskList, m_hSemaphores, wpc, task, tmp, ccall,
                   blockwait, it, ftmp, ncalls, max_tasks, callinfo, stat, logging, log, fsnap, flog>>
    /\ UNCHANGED waitinfo
    /\ UNCHANGED created
    /\ ahead' = Taken(ahead, SeqToSet(Ids(m_TaskList)) \ SeqToSet(Ids(m_TaskList')))

\* faulty variant of ReleaseQuit: TS_QUIT is released by one
ReleaseQuit_One(c) ==
    /\ cpc[c] = "rel_quit"
    /\ m_hSemaphores' =
         [m_hSemaphores EXCEPT ![TS_QUIT] = ReleaseSemaphore(@, 1, thread_count)]
    /\ cpc' = [cpc EXCEPT ![c] = "rel_join"]
    /\ UNCHANGED <<thread_count, m_TaskList, m_csTaskList, wpc, task, tmp, ccall,
                   blockwait, it, ftmp, ncalls, max_tasks, hvars>>

\* ReleaseSemaphore(m_hSemaphores[TS_QUIT], m_hThreads.size(), NULL)
ReleaseQuit(c) ==
    /\ cpc[c] = "rel_quit"
    /\ m_hSemaphores' =
         [m_hSemaphores EXCEPT ![TS_QUIT] = ReleaseSemaphore(@, thread_count, thread_count)]
    /\ cpc' = [cpc EXCEPT ![c] = "rel_join"]
    /\ UNCHANGED <<thread_count, m_TaskList, m_csTaskList, wpc, task, tmp, ccall,
                   blockwait, it, ftmp, ncalls, max_tasks, hvars>>

\* faulty variant of ReleaseJoin: the threads are not waited for
ReleaseJoin_NoWait(c) ==
    /\ cpc[c] = "rel_join"
    /\ cpc' = [cpc EXCEPT ![c] = "rel_done"]
    /\ UNCHANGED <<pvars_but_cpc, hvars>>

\* m_hThreads[i].join() for every i; CloseHandle; the pool is gone
ReleaseJoin(c) ==
    /\ cpc[c] = "rel_join"
    /\ \A w \in Workers : wpc[w] = "term"
    /\ cpc' = [cpc EXCEPT ![c] = "rel_done"]
    /\ UNCHANGED <<pvars_but_cpc, hvars>>

\* m_hThreads.size() == 0: nothing to purge, signal or join
ReleaseEmpty(c) ==
    /\ \A d \in Clients : cpc[d] = "idle"
    /\ thread_count = 0
    /\ cpc' = [cpc EXCEPT ![c] = "rel_done"]
    /\ UNCHANGED <<pvars_but_cpc, hvars>>

Client(c) ==
    \/ \E numtimes \in 1..TaskLimit, block \in BOOLEAN : RunTaskEnqueue(c, numtimes, block)
    \/ RunTaskSignal(c)
    \/ RunTaskReturn(c)
    \/ PurgeAllPendingTasks(c)
    \/ Flush(c)
    \/ FlushCallback(c)
    \/ FlushDecrementLoad(c)
    \/ FlushDecrementStore(c)
    \/ FlushLeave(c)
    \/ WaitForAllTasksPoll(c, INFINITE)
    \/ WaitForAllTasksReturn(c)
    \/ WaitForAllTasksFlush(c, INFINITE)
    \/ ReleasePurge(c)
    \/ ReleaseQuit(c)
    \/ ReleaseJoin(c)
    \/ ReleaseEmpty(c)

Next ==
    \/ \E w \in Threads : Worker(w)
    \/ \E c \in Clients : Client(c)

Spec == Init /\ [][Next]_vars

\* A pool made by Create(0): no worker exists, nothing waits on a semaphore,
\* and the callbacks append to log.
InitQueueOnly == InitPool({0}, MaxQueued, TRUE) /\ created = NoCreate

NextQueueOnly ==
    \E c \in Clients :
        \/ \E numtimes \in 1..TaskLimit, block \in BOOLEAN : RunTaskEnqueue(c, numtimes, block)
        \/ RunTaskSignal(c)
        \/ PurgeAllPendingTasks(c)
        \/ Flush(c)
        \/ FlushCallback(c)
        \/ FlushDecrementLoad(c)
        \/ FlushDecrementStore(c)
        \/ FlushLeave(c)
        \/ \E milliseconds \in Timeouts : WaitForAllTasksFlush(c, milliseconds)
        \/ ReleaseEmpty(c)

SpecQueueOnly == InitQueueOnly /\ [][NextQueueOnly]_vars

\* A pool made by Create(1) whose clients only submit and purge, and whose
\* callbacks append to log.
InitOneWorker == InitPool({1}, MaxQueued, TRUE) /\ created = NoCreate

NextOneWorker ==
    \/ \E w \in Threads :
          \/ WorkerRun(w)
          \/ WorkerGetNextTask(w)
          \/ WorkerCallback(w)
          \/ WorkerRequeue(w)
          \/ WorkerDecrementLoad(w)
          \/ WorkerDecrementStore(w)
    \/ \E c \in Clients :
          \/ \E numtimes \in 1..TaskLimit, block \in BOOLEAN : RunTaskEnqueue(c, numtimes, block)
          \/ RunTaskSignal(c)
          \/ RunTaskReturn(c)
          \/ PurgeAllPendingTasks(c)

SpecOneWorker == InitOneWorker /\ [][NextOneWorker]_vars

\* A pool made by Create(1) whose clients submit tasks and call
\* WaitForAllTasks with a finite or an infinite milliseconds, the Sleep(1)
\* calls of the polling loop being counted.
InitWait == InitPool({1}, MaxTasks, FALSE) /\ created = NoCreate

NextWait ==
    \/ \E w \in Threads :
          \/ WorkerRun(w)
          \/ WorkerGetNextTask(w)
          \/ WorkerCallback(w)
          \/ WorkerRequeue(w)
          \/ WorkerDecrementLoad(w)
          \/ WorkerDecrementStore(w)
    \/ \E c \in Clients :
          \/ \E numtimes \in 1..TaskLimit, block \in BOOLEAN : RunTaskEnqueue(c, numtimes, block)
          \/ RunTaskSignal(c)
          \/ RunTaskReturn(c)
          \/ \E milliseconds \in Timeouts : WaitForAllTasksPoll(c, milliseconds)
          \/ WaitForAllTasksSleep(c)
          \/ WaitForAllTasksReturn(c)

SpecWait == InitWait /\ [][NextWait]_vars

\* A pool with workers whose clients only submit tasks, never purged and
\* never released. The scheduler is fair to every thread: a worker that
\* can take a step (its wait is satisfied, m_csTaskList is free, its
\* callback returns) takes it, and so does a client inside RunTask; a
\* client need not call RunTask again.
InitFair == InitPool(1..MaxThreads, MaxTasks, FALSE) /\ created = NoCreate

WorkerFair(w) ==
    \/ WorkerRun(w)
    \/ WorkerGetNextTask(w)
    \/ WorkerCallback(w)
    \/ WorkerRequeue(w)
    \/ WorkerDecrementLoad(w)
    \/ WorkerDecrementStore(w)

ClientFair(c) ==
    \/ RunTaskSignal(c)
    \/ RunTaskReturn(c)

NextFair ==
    \/ \E w \in Threads : WorkerFair(w)
    \/ \E c \in Clients :
          \/ \E numtimes \in 1..TaskLimit, block \in BOOLEAN : RunTaskEnqueue(c, numtimes, block)
          \/ ClientFair(c)

SpecFair ==
    /\ InitFair
    /\ [][NextFair]_vars
    /\ \A w \in Threads : WF_vars(WorkerFair(w))
    /\ \A c \in Clients : WF_vars(ClientFair(c))

\* The same pool and scheduler, with clients that also purge.
NextFairPurge ==
    \/ NextFair
    \/ \E c \in Clients : PurgeAllPendingTasks(c)

SpecFairPurge ==
    /\ InitFair
    /\ [][NextFairPurge]_vars
    /\ \A w \in Threads : WF_vars(WorkerFair(w))
    /\ \A c \in Clients : WF_vars(ClientFair(c))

\* A pool with workers whose clients submit tasks and then release it,
\* under the same fair scheduler: the thread inside ~CThreadPool keeps
\* being scheduled too.
ReleaseFair(c) ==
    \/ ClientFair(c)
    \/ ReleaseQuit(c)
    \/ ReleaseJoin(c)

NextFairRelease ==
    \/ \E w \in Threads : Worker(w)
    \/ \E c \in Clients :
          \/ \E numtimes \in 1..TaskLimit, block \in BOOLEAN : RunTaskEnqueue(c, numtimes, block)
          \/ ReleasePurge(c)
          \/ ReleaseFair(c)

SpecFairRelease ==
    /\ InitFair
    /\ [][NextFairRelease]_vars
    /\ \A w \in Threads : WF_vars(Worker(w))
    /\ \A c \in Clients : WF_vars(ReleaseFair(c))

\* The same, with clients that also purge before the pool is released.
NextFairPurgeRelease ==
    \/ NextFairRelease
    \/ \E c \in Clients : PurgeAllPendingTasks(c)

SpecFairPurgeRelease ==
    /\ InitFair
    /\ [][NextFairPurgeRelease]_vars
    /\ \A w \in Threads : WF_vars(Worker(w))
    /\ \A c \in Clients : WF_vars(ReleaseFair(c))

\* ---------------------------------------------------------- GetNumThreads
\* return (UINT)m_hThreads.size()
GetNumThreads(c) ==
    /\ cpc[c] = "idle"
    /\ ~Released
    /\ created' = [created EXCEPT !.got = ToUINT(thread_count)]
    /\ UNCHANGED <<pvars, callinfo, stat, purged, logging, log, fsnap, flog, waitinfo>>
    /\ UNCHANGED ahead

\* Pools made by either form of Create, for every argument the integer
\* types hold that asks for no more threads than a UINT counts, whose
\* clients then submit, purge and ask GetNumThreads while no worker has
\* been scheduled yet.
InitCreate ==
    \/ \E n \in 0..DWORD_MAX :
          /\ InitPool({n}, 1, FALSE)
          /\ created = [form |-> "count", threads_per_core |-> 0, cores |-> 0,
                        core_count_adjustment |-> 0, thread_count |-> n, got |-> -1]
    \/ \E threads_per_core \in 0..SIZE_T_MAX, cores \in 1..DWORD_MAX,
          core_count_adjustment \in INT_MIN..INT_MAX :
          /\ CThreadPool(threads_per_core, cores, core_count_adjustment) <= DWORD_MAX
          /\ InitPool({CThreadPool(threads_per_core, cores, core_count_adjustment)}, 1, FALSE)
          /\ created = [form |-> "per_core", threads_per_core |-> threads_per_core,
                        cores |-> cores, core_count_adjustment |-> core_count_adjustment,
                        thread_count |-> 0, got |-> -1]

NextCreate ==
    \E c \in Clients :
        \/ GetNumThreads(c)
        \/ \E numtimes \in 1..TaskLimit : RunTaskEnqueue(c, numtimes, FALSE)
        \/ RunTaskSignal(c)
        \/ PurgeAllPendingTasks(c)

SpecCreate == InitCreate /\ [][NextCreate]_vars

\* ================================================================ claims
TasksOf(k) == {<<k, i>> : i \in 0..(callinfo[k].numtimes - 1)}

\* the task is in m_TaskList and still to be run: an entry that a running
\* Flush has gone past (it is 0 while no Flush runs) only waits for clear()
InQueue(id) == \E i \in 1..Len(m_TaskList) : i >= it /\ Id(m_TaskList[i]) = id

\* a worker has dequeued the task and has not finished with it
HeldBy(w, id) ==
    /\ w \in Workers
    /\ wpc[w] \in {"call", "requeue", "decr", "decw"}
    /\ Id(task[w]) = id

Executing(id) == \E w \in Threads : HeldBy(w, id)

\* C1: on a pool with at least one worker, a RunTask with block = true has
\* returned only if each of its numtimes tasks has returned TR_OK exactly
\* once and none of them is queued or executing.
C1_BlockingReturnAfterDone ==
    \A k \in Calls :
        (thread_count >= 1 /\ callinfo[k].block /\ callinfo[k].returned)
            => \A id \in TasksOf(k) :
                   stat[id].done = 1 /\ ~InQueue(id) /\ ~Executing(id)

\* diagnostic: the same, for the calls none of whose tasks Flush has run
C1_WithoutFlush ==
    \A k \in Calls :
        (/\ thread_count >= 1 /\ callinfo[k].block /\ callinfo[k].returned
         /\ \A id \in TasksOf(k) : stat[id].decF = 0)
            => \A id \in TasksOf(k) :
                   stat[id].done = 1 /\ ~InQueue(id) /\ ~Executing(id)

\* Flush has invoked the callback of the task and not yet stored its decrement
FlushHolds(id) ==
    /\ \E c \in Clients : cpc[c] \in {"fl_decr", "fl_decw"}
    /\ Id(FlushTask(m_TaskList, it)) = id

\* the task has not returned TR_OK, or the thread that ran it has not yet
\* finished handling that return
Unfinished(id) == stat[id].done = 0 \/ Executing(id) \/ FlushHolds(id)

\* C2: while a RunTask with block = true has not returned, its blockwait
\* equals the number of its tasks that have not finished with TR_OK; stated
\* here for the calls whose tasks the workers run (Flush has run none).
C2_CounterCountsUnfinished ==
    \A k \in 1..ncalls :
        (/\ callinfo[k].block /\ ~callinfo[k].returned
         /\ \A id \in TasksOf(k) : stat[id].decF = 0 /\ ~FlushHolds(id))
            => blockwait[k] = Cardinality({id \in TasksOf(k) : Unfinished(id)})

\* diagnostic: the same without the restriction to tasks that workers run
C2_IncludingFlush ==
    \A k \in 1..ncalls :
        (callinfo[k].block /\ ~callinfo[k].returned)
            => blockwait[k] = Cardinality({id \in TasksOf(k) : Unfinished(id)})

\* ---------------------------------------------------------------- C3
\* worker w's callback has just returned TR_RERUN
RerunStep(w) ==
    /\ HeldBy(w, Id(task[w]))
    /\ wpc[w] = "call"
    /\ stat'[Id(task[w])].rerun = stat[Id(task[w])].rerun + 1

\* C3: a worker whose callback returns TR_RERUN invokes the same callback
\* again at once: the task stays out of m_TaskList, no other worker holds
\* it, and blockwait is not touched; and when the worker comes to decrement
\* blockwait, the task has been invoked once more than it asked to be run
\* again, has returned TR_OK once, and has not been decremented for before.
C3_RerunLoop ==
    /\ [](\A w \in Threads : \A id \in TaskIds :
            HeldBy(w, id) =>
                /\ ~InQueue(id)
                /\ \A v \in Threads : HeldBy(v, id) => v = w
                /\ stat[id].decW = 0 /\ stat[id].decF = 0
                /\ wpc[w] \in {"decr", "decw"} =>
                      /\ stat[id].done = 1
                      /\ stat[id].inv = stat[id].rerun + stat[id].requeue + 1)
    /\ [][\A w \in Threads :
            RerunStep(w) =>
                /\ wpc'[w] = "call"
                /\ task'[w] = task[w]
                /\ m_TaskList' = m_TaskList
                /\ blockwait' = blockwait]_vars

\* a worker is about to decrement for a task that returned TR_RERUN, then TR_OK
C3_Witness ==
    \E w \in Threads : \E id \in TaskIds :
        /\ HeldBy(w, id) /\ wpc[w] = "decr"
        /\ stat[id].rerun = 1 /\ stat[id].inv = 2 /\ stat[id].deq = 1

\* ---------------------------------------------------------------- C4
\* worker w pushes its task back
RequeueStep(w) == w \in Workers /\ wpc[w] = "requeue" /\ wpc'[w] # "requeue"

\* C4: each TR_REQUEUE a worker handles appends the task to m_TaskList
\* (one entry more) and leaves blockwait alone; a worker decrements for a
\* task only after it has returned TR_OK, and by then the task has been
\* dequeued once more than it has returned TR_REQUEUE.
C4_RequeueThenDone ==
    /\ [](\A id \in TaskIds :
            /\ \A w \in Threads :
                  HeldBy(w, id) =>
                      /\ stat[id].deq = stat[id].requeue + (IF wpc[w] = "requeue" THEN 0 ELSE 1)
                      /\ wpc[w] \in {"decr", "decw"} => stat[id].done = 1
            /\ stat[id].decW > 0
                  => /\ stat[id].decW = 1 /\ stat[id].done = 1
                     /\ stat[id].deq = stat[id].requeue + 1)
    /\ [][\A w \in Threads :
            RequeueStep(w) =>
                /\ m_TaskList' = Append(m_TaskList, task[w])
                /\ blockwait' = blockwait
                /\ stat' = stat]_vars

\* a worker has decremented for a task that it dequeued twice
C4_Witness ==
    \E id \in TaskIds :
        stat[id].requeue = 1 /\ stat[id].deq = 2 /\ stat[id].decW = 1

\* ---------------------------------------------------------------- C5
\* C5: when a worker handles TR_REQUEUE it raises the run semaphore after
\* the push_back, so that a worker parked at that moment has a count to
\* wake up on.
C5_RequeueRaisesRun ==
    [][\A w \in Threads :
         (RequeueStep(w) /\ \E v \in Workers : wpc[v] = "parked")
             => /\ m_hSemaphores'[TS_RUN] =
                     ReleaseSemaphore(m_hSemaphores[TS_RUN], thread_count, thread_count)
                /\ m_hSemaphores'[TS_RUN] >= 1]_vars

\* ---------------------------------------------------------------- C6
\* a clear() of PurgeAllPendingTasks has just run
PurgeStep == purged' # purged

\* C6: PurgeAllPendingTasks empties m_TaskList in one step; a task it
\* removed is never dequeued or invoked afterwards; the workers and the
\* tasks they hold are left as they are.
C6_PurgeRemovesQueued ==
    /\ [](\A id \in purged : id \notin SeqToSet(Ids(m_TaskList)) /\ ~Executing(id))
    /\ [][\A id \in purged : stat'[id] = stat[id]]_vars
    /\ [][PurgeStep =>
            /\ purged' = purged \cup SeqToSet(Ids(m_TaskList))
            /\ m_TaskList' = <<>>
            /\ wpc' = wpc /\ task' = task /\ tmp' = tmp
            /\ blockwait' = blockwait /\ stat' = stat]_vars

\* of two tasks of one call, one was purged unrun and the other, dequeued
\* before the purge, has finished and been decremented for
C6_Witness ==
    \E id \in TaskIds, pid \in purged :
        /\ id[1] = pid[1]
        /\ stat[pid].inv = 0
        /\ stat[id].decW = 1

\* ---------------------------------------------------------------- C7
\* C7: PurgeAllPendingTasks leaves every blockwait alone, so a RunTask with
\* block = true one of whose tasks was purged keeps a nonzero blockwait
\* and, on a pool with workers, has not returned.
C7_PurgedCallNeverReturns ==
    /\ [](\A k \in 1..ncalls :
            (callinfo[k].block /\ TasksOf(k) \cap purged # {})
                => /\ blockwait[k] >= 1
                   /\ blockwait[k] <= callinfo[k].numtimes
                   /\ thread_count >= 1 => ~callinfo[k].returned)
    /\ [][PurgeStep => blockwait' = blockwait]_vars

\* a caller waits in RunTask for nothing but purged tasks
C7_Witness ==
    \E c \in Clients :
        /\ thread_count >= 1
        /\ cpc[c] = "rt_wait"
        /\ TasksOf(ccall[c]) \cap purged # {}
        /\ blockwait[ccall[c]] = Cardinality(TasksOf(ccall[c]) \cap purged)
        /\ m_TaskList = <<>>
        /\ \A w \in Workers : wpc[w] = "parked"
        /\ m_hSemaphores[TS_RUN] = 0

\* ---------------------------------------------------------------- C8
\* the task numbers of log, a run of invocations of one task (TR_RERUN)
\* counted once, are 0, 1, 2, ... without a gap
GapFree(l, n) ==
    /\ l # <<>> => l[1][2] = 0
    /\ \A i \in 2..Len(l) : l[i][2] = l[i-1][2] \/ l[i][2] = l[i-1][2] + 1
    /\ \A i \in 1..Len(l) : l[i][2] < n

\* one RunTask with block = false so far, and no callback returned TR_REQUEUE
OneRequeueFreeCall ==
    /\ ncalls = 1
    /\ ~callinfo[1].block
    /\ \A id \in TaskIds : stat[id].requeue = 0

\* C8: with one worker, one non-blocking RunTask of N tasks that never
\* return TR_REQUEUE and PurgeAllPendingTasks at any moment, the callbacks
\* run are those of tasks 0..k-1 for some k <= N, in that order, and a
\* purged task is not among them.
C8_ExecutedIsPrefix ==
    (thread_count = 1 /\ OneRequeueFreeCall)
        => /\ GapFree(log, callinfo[1].numtimes)
           /\ \A i \in 1..Len(log) : log[i][1] = 1 /\ log[i] \notin purged

\* settled after a purge that cut the run short: tasks 0 and 1 ran, a
\* later one was purged
C8_Witness ==
    /\ thread_count = 1 /\ OneRequeueFreeCall
    /\ purged # {}
    /\ \E i \in 1..Len(log) : log[i][2] = 1
    /\ m_TaskList = <<>>
    /\ \A w \in Workers : wpc[w] = "parked"
    /\ m_hSemaphores[TS_RUN] = 0

\* ---------------------------------------------------------------- C9
\* some callback is invoked in this step
InvokeStep == \E id \in TaskIds : stat'[id].inv # stat[id].inv

\* some client is inside Flush (entered directly or from WaitForAllTasks)
InFlush == \E c \in Clients : cpc[c] \in {"fl_loop", "fl_decr", "fl_decw"}

\* C9: with no worker thread, RunTask appends its numtimes tasks and
\* returns, whatever block is: it never waits on blockwait, raises no
\* semaphore and invokes nothing; a callback is only ever invoked inside
\* Flush.
C9_QueueOnlyRunTask ==
    /\ [](thread_count = 0 =>
            /\ \A c \in Clients : cpc[c] # "rt_wait"
            /\ m_hSemaphores[TS_RUN] = 0
            /\ \A w \in Threads : wpc[w] # "call")
    /\ [][(thread_count = 0 /\ InvokeStep) => (InFlush /\ ncalls' = ncalls)]_vars
    /\ [][(thread_count = 0 /\ ncalls' # ncalls) =>
            /\ stat' = stat /\ log' = log
            /\ Len(m_TaskList') = Len(m_TaskList) + callinfo'[ncalls'].numtimes]_vars
    /\ [][\A k \in Calls :
            (thread_count = 0 /\ ~callinfo[k].returned /\ callinfo'[k].returned)
                => /\ stat' = stat
                   /\ m_TaskList' = m_TaskList
                   /\ blockwait' = blockwait]_vars

\* a RunTask with block = true has returned with all its tasks queued,
\* none invoked, and blockwait still at numtimes
C9_Witness ==
    /\ thread_count = 0
    /\ \E k \in 1..ncalls :
         /\ callinfo[k].block /\ callinfo[k].returned
         /\ callinfo[k].numtimes >= 2
         /\ blockwait[k] = callinfo[k].numtimes
         /\ \A id \in TasksOf(k) : InQueue(id) /\ stat[id].inv = 0
    /\ log = <<>>
    /\ \A c \in Clients : cpc[c] = "idle"

\* --------------------------------------------------------------- C10
\* Flush returns on this step
FlushReturns == \E c \in Clients : cpc[c] = "fl_loop" /\ cpc'[c] = "idle"

\* C10: with no worker thread, Flush invokes the tasks it found in
\* m_TaskList front to back, each once, whatever they return, and leaves
\* m_TaskList empty.
C10_FlushRunsAllInOrder ==
    /\ [](thread_count = 0 =>
            /\ Len(flog) <= Len(fsnap)
            /\ flog = SubSeq(fsnap, 1, Len(flog))
            /\ InFlush => Ids(m_TaskList) = fsnap)
    /\ [][(thread_count = 0 /\ FlushReturns) =>
            /\ flog = fsnap
            /\ m_TaskList' = <<>>]_vars
    /\ [][(thread_count = 0 /\ InFlush /\ InvokeStep) =>
            /\ flog' = Append(flog, fsnap[Len(flog) + 1])
            /\ log' = Append(log, fsnap[Len(flog) + 1])
            /\ stat'[fsnap[Len(flog) + 1]].inv = stat[fsnap[Len(flog) + 1]].inv + 1]_vars

\* a Flush has returned after running the tasks of two RunTask calls
C10_Witness ==
    /\ thread_count = 0
    /\ \A c \in Clients : cpc[c] = "idle"
    /\ m_TaskList = <<>>
    /\ Len(flog) >= 3
    /\ flog = fsnap
    /\ log = flog
    /\ \E i, j \in 1..Len(flog) : flog[i][1] # flog[j][1]
    /\ \A i \in 1..Len(flog) : stat[flog[i]].inv = 1

\* --------------------------------------------------------------- C11
\* C11: Flush treats the TASK_RETURN of a callback as WorkerThreadProc
\* does: after TR_RERUN it invokes the same task again at once, a task is
\* decremented for only once it has returned TR_OK, and when Flush returns
\* every task it found (requeued ones included) has returned TR_OK.
C11_FlushHonorsDispositions ==
    /\ [](\A id \in TaskIds : stat[id].decF >= 1 => stat[id].done >= 1)
    /\ [][\A id \in TaskIds :
            (InFlush /\ stat'[id].rerun = stat[id].rerun + 1)
                => (it' = it /\ cpc' = cpc)]_vars
    /\ [][FlushReturns =>
            \A i \in 1..Len(fsnap) : stat[fsnap[i]].done >= 1]_vars

\* --------------------------------------------------------------- C12
\* client c leaves the polling loop of WaitForAllTasks on this step
WaitReturns(c) == thread_count >= 1 /\ cpc[c] = "wait" /\ cpc'[c] = "idle"

\* the callback of the task is being executed by a worker
InCallback(id) == \E w \in Threads : HeldBy(w, id) /\ wpc[w] = "call"

\* C12: on a pool with workers, when WaitForAllTasks(INFINITE) returns and
\* no RunTask was made since it began, no task submitted so far is in
\* m_TaskList and none is inside its callback.
C12_WaitReturnsWhenAllDone ==
    [][\A c \in Clients :
         (/\ WaitReturns(c)
          /\ waitinfo[c].milliseconds = INFINITE
          /\ waitinfo[c].from = ncalls)
             => \A k \in 1..ncalls : \A id \in TasksOf(k) :
                    ~InQueue(id) /\ ~InCallback(id)]_vars

\* --------------------------------------------------------------- C13
\* C13: on a pool with workers, WaitForAllTasks(milliseconds) with a
\* finite milliseconds is over once that time has elapsed: no client is
\* still in the polling loop after sleeping for more than milliseconds
\* (each Sleep(1) lasts a millisecond at least).
C13_WaitHonorsTimeout ==
    \A c \in Clients :
        (thread_count >= 1 /\ cpc[c] = "wait" /\ waitinfo[c].milliseconds # INFINITE)
            => waitinfo[c].slept <= waitinfo[c].milliseconds

\* --------------------------------------------------------------- C14
\* client c calls WaitForAllTasks on a pool without workers on this step
WaitFlushStep(c) ==
    thread_count = 0 /\ waitinfo[c] = NoWait /\ waitinfo'[c] # NoWait

\* C14: on a pool without workers WaitForAllTasks does what Flush does:
\* its step is the entry of Flush on the same m_TaskList, and when it
\* returns every task it found has been invoked once, front to back, each
\* task with a blockwait has been decremented for once, and m_TaskList is
\* empty.
C14_WaitIsFlush ==
    /\ [](thread_count = 0 => \A c \in Clients : cpc[c] # "wait")
    /\ [][\A c \in Clients :
            WaitFlushStep(c) =>
                /\ cpc[c] = "idle"
                /\ FlushEnter(c)
                /\ fsnap' = Ids(m_TaskList)]_vars
    /\ [][\A c \in Clients :
            (thread_count = 0 /\ waitinfo[c] # NoWait /\ waitinfo'[c] = NoWait) =>
                /\ flog = fsnap
                /\ m_TaskList' = <<>>
                /\ \A i \in 1..Len(fsnap) :
                     stat[fsnap[i]].decF = (IF callinfo[fsnap[i][1]].block THEN 1 ELSE 0)]_vars

\* a WaitForAllTasks has run the tasks of a blocking and of a non-blocking
\* RunTask and is about to return
C14_Witness ==
    \E c \in Clients :
        /\ thread_count = 0
        /\ waitinfo[c] # NoWait
        /\ cpc[c] = "fl_loop" /\ it > Len(m_TaskList)
        /\ flog = fsnap
        /\ \E i, j \in 1..Len(flog) :
             callinfo[flog[i][1]].block /\ ~callinfo[flog[j][1]].block

\* --------------------------------------------------------------- C15
\* worker w's GetNextTask has returned true on this step
DequeueStep(w) == w \in Workers /\ wpc[w] = "get" /\ wpc'[w] = "call"

\* C15: GetNextTask takes the task at the front of m_TaskList, the one
\* pushed earliest; so a task of a RunTask call is dequeued for the first
\* time only after all tasks of that call with a smaller m_TaskNumber
\* were, whichever workers dequeue them, and without TR_REQUEUE no task is
\* dequeued twice.
C15_DequeueInOrder ==
    /\ [][\A w \in Threads :
            DequeueStep(w) =>
                /\ m_TaskList # <<>>
                /\ task'[w] = Head(m_TaskList)
                /\ m_TaskList' = Tail(m_TaskList)
                /\ \A id \in TaskIds :
                     (id[1] = task'[w].m_Call /\ id[2] < task'[w].m_TaskNumber
                      /\ id \in TasksOf(id[1]))
                         => stat[id].deq >= 1]_vars
    /\ [](\A k \in 1..ncalls : \A id \in TasksOf(k) :
            /\ stat[id].deq >= 1 =>
                 \A jd \in TasksOf(k) : jd[2] < id[2] => stat[jd].deq >= 1
            /\ stat[id].deq <= stat[id].requeue + 1)

\* the two tasks of one RunTask are held by two workers, task 0 dequeued
\* by the one and task 1 by the other
C15_Witness ==
    \E k \in 1..ncalls : \E w, v \in Workers :
        /\ w # v
        /\ HeldBy(w, <<k, 0>>) /\ HeldBy(v, <<k, 1>>)
        /\ stat[<<k, 0>>].requeue = 0 /\ stat[<<k, 1>>].requeue = 0
        /\ purged = {}

\* --------------------------------------------------------------- C16
\* the threads that hold the task and run it or handle what it returned:
\* workers between GetNextTask and the requeue or decrement, and a client
\* whose Flush is at the task
Holders(id) ==
    {<<"worker", w>> : w \in {v \in Workers : HeldBy(v, id)}}
        \cup {<<"client", c>> : c \in {d \in Clients :
                 /\ cpc[d] \in {"fl_loop", "fl_decr", "fl_decw"}
                 /\ it <= Len(m_TaskList)
                 /\ Id(FlushTask(m_TaskList, it)) = id}}

\* the entries of m_TaskList that are the task
Entries(id) == {i \in 1..Len(m_TaskList) : Id(m_TaskList[i]) = id}

\* C16: a task is never run by two threads at once: it has at most one
\* holder, because it is either one entry of m_TaskList (where only the
\* Flush that owns m_csTaskList reaches it) or the local task of exactly
\* one worker, never both.
C16_OneThreadPerTask ==
    \A id \in TaskIds :
        /\ Cardinality(Holders(id)) <= 1
        /\ Cardinality(Entries(id)) + Cardinality({w \in Workers : HeldBy(w, id)}) <= 1
        /\ Holders(id) # {} => id \in TasksOf(id[1])

\* a worker is inside the callback of one task while Flush, on another
\* thread, handles a different task
C16_Witness ==
    \E w \in Workers : \E id, jd \in TaskIds :
        /\ id # jd
        /\ HeldBy(w, id) /\ wpc[w] = "call"
        /\ FlushHolds(jd)
        /\ Holders(jd) # {} /\ Holders(id) # {}

\* --------------------------------------------------------------- C17
\* Release has returned
ReleaseDone == \E c \in Clients : cpc[c] = "rel_done"

\* C17: Release on a pool with workers clears m_TaskList, raises TS_QUIT
\* by m_hThreads.size() and joins: once it has returned every worker has
\* left WorkerThreadProc, each having taken one TS_QUIT, the tasks that
\* were queued at the call were not run after it, and nothing is invoked
\* any more.
C17_ReleaseStopsWorkers ==
    /\ [][\A c \in Clients :
            (cpc[c] = "idle" /\ cpc'[c] = "rel_quit") =>
                /\ m_TaskList' = <<>>
                /\ SeqToSet(Ids(m_TaskList)) \subseteq purged']_vars
    /\ [][\A c \in Clients :
            (cpc[c] = "rel_quit" /\ cpc'[c] = "rel_join") =>
                m_hSemaphores'[TS_QUIT] = thread_count]_vars
    /\ [](ReleaseDone =>
            /\ \A w \in Workers : wpc[w] = "term"
            /\ thread_count >= 1 => m_hSemaphores[TS_QUIT] = 0
            /\ thread_count >= 1 => m_TaskList = <<>>)
    /\ [][Released => \A id \in purged : stat'[id] = stat[id]]_vars
    /\ [][ReleaseDone => (stat' = stat /\ m_TaskList' = m_TaskList)]_vars

\* Release of a pool with two workers has returned; it had purged a task
\* while another was being run to its end
C17_Witness ==
    /\ ReleaseDone
    /\ thread_count = 2
    /\ \A w \in Workers : wpc[w] = "term"
    /\ \E id \in purged : stat[id].inv = 0
    /\ \E id \in TaskIds : stat[id].done = 1

\* --------------------------------------------------------------- C18
\* threads_per_core * max(1, cores + core_count_adjustment), in the integers
PerCoreCount ==
    created.threads_per_core *
        (IF created.cores + created.core_count_adjustment < 1
         THEN 1 ELSE created.cores + created.core_count_adjustment)

\* C18: GetNumThreads returns threads_per_core * max(1, core count +
\* core_count_adjustment) on a pool made by Create(threads_per_core,
\* core_count_adjustment), n on a pool made by Create(n), for every value
\* of the arguments, and m_hThreads.size() never changes.
C18_GetNumThreads ==
    /\ [](created.got # -1 =>
            /\ created.form = "per_core" => created.got = PerCoreCount
            /\ created.form = "count" => created.got = created.thread_count)
    /\ [][thread_count' = thread_count]_vars

\* diagnostic: the same where no conversion loses a bit: the sum of core
\* count and adjustment is an int, and the count is both a size_t and a UINT
C18_WithoutOverflow ==
    /\ [](created.got # -1 =>
            /\ (/\ created.form = "per_core"
                /\ created.cores + created.core_count_adjustment <= INT_MAX
                /\ PerCoreCount <= DWORD_MAX)
                   => created.got = PerCoreCount
            /\ (created.form = "count" /\ created.thread_count <= DWORD_MAX)
                   => created.got = created.thread_count)
    /\ [][thread_count' = thread_count]_vars

\* --------------------------------------------------------------- C19
\* the tasks of call k that a worker has stored a decrement for
Decremented(k) == {id \in TasksOf(k) : stat[id].decW >= 1}

\* C19: the decrements of a blockwait are atomic: while workers finish the
\* tasks of a RunTask with block = true (Flush running none of them),
\* blockwait is numtimes less the number of tasks decremented for, in
\* every interleaving of the loads and stores.
C19_NoLostDecrement ==
    \A k \in 1..ncalls :
        (/\ thread_count >= 1
         /\ callinfo[k].block
         /\ \A id \in TasksOf(k) : stat[id].decF = 0 /\ ~FlushHolds(id))
            => blockwait[k] = callinfo[k].numtimes - Cardinality(Decremented(k))

\* --------------------------------------------------------------- C20
\* client c evaluates m_TaskList.empty() in WaitForAllTasks on this step
WaitReadStep(c) ==
    /\ cpc[c] = "wait"
    /\ cpc'[c] = "idle" \/ waitinfo'[c].slept # waitinfo[c].slept

\* client c is the thread that takes this step
ClientStep(c) == cpc'[c] # cpc[c] \/ waitinfo'[c] # waitinfo[c]

\* C20: m_TaskList is only read or written under m_csTaskList: a step
\* that changes it is taken with the critical section free (entered and
\* left within the step) or by its owner, and no thread evaluates
\* m_TaskList.empty() while another thread is inside the critical section.
C20_QueueAccessUnderLock ==
    /\ [][m_TaskList' # m_TaskList =>
            \/ m_csTaskList = NULL
            \/ \E c \in Clients : m_csTaskList = c /\ ClientStep(c)]_vars
    /\ [][\A c \in Clients :
            WaitReadStep(c) => (m_csTaskList = NULL \/ m_csTaskList = c)]_vars

\* --------------------------------------------------------------- C21
\* the callback of a task of call k is invoked on this step
InvokedOf(k) == \E id \in TasksOf(k) : stat'[id].inv # stat[id].inv

\* C21: the blockwait of a RunTask with block = true is incremented for
\* all its tasks before any of them can run: whenever one of its callbacks
\* is invoked blockwait is not zero, and blockwait is not zero as long as
\* one of its tasks has not returned TR_OK.
C21_CountedBeforeRun ==
    /\ [][\A k \in 1..ncalls :
            (callinfo[k].block /\ InvokedOf(k)) => blockwait[k] >= 1]_vars
    /\ [](\A k \in 1..ncalls :
            (callinfo[k].block /\ \E id \in TasksOf(k) : stat[id].done = 0)
                => blockwait[k] # 0)

\* diagnostic: the same for the calls none of whose tasks Flush has run
C21_WithoutFlush ==
    /\ [][\A k \in 1..ncalls :
            (callinfo[k].block /\ InvokedOf(k)) => blockwait[k] >= 1]_vars
    /\ [](\A k \in 1..ncalls :
            (/\ callinfo[k].block
             /\ \E id \in TasksOf(k) : stat[id].done = 0
             /\ \A id \in TasksOf(k) : stat[id].decF = 0)
                => blockwait[k] # 0)

\* --------------------------------------------------------------- C22
\* a task still to be run in m_TaskList, or one held by a worker, points at
\* the blockwait of call k
Referenced(k) ==
    \/ \E i \in 1..Len(m_TaskList) : i >= it /\ m_TaskList[i].m_pActionRef = k
    \/ \E w \in Workers : wpc[w] \in {"call", "requeue", "decr", "decw"}
                          /\ task[w].m_pActionRef = k

\* C22: the blockwait of a RunTask with block = true, a local of that
\* call, is alive as long as a task points at it: the call has not
\* returned while such a task is queued or held by a worker, on pools
\* without workers too.
C22_CounterOutlivesTasks ==
    \A k \in 1..ncalls :
        (callinfo[k].block /\ callinfo[k].returned) => ~Referenced(k)

\* diagnostic: the same on the pools that have a worker
C22_WithWorkers ==
    thread_count >= 1 => C22_CounterOutlivesTasks

\* --------------------------------------------------------------- C23
\* decrements stored for the tasks of call k, by workers and by Flush
RECURSIVE DecrementsOf(_, _)
DecrementsOf(k, n) ==
    IF n = 0 THEN 0
    ELSE stat[<<k, n - 1>>].decW + stat[<<k, n - 1>>].decF + DecrementsOf(k, n - 1)

\* C23: a blockwait never goes below zero: the decrements stored for the
\* tasks of a call never outnumber its numtimes increments, no task is
\* decremented for twice, none that did not run, and the size_t, as long
\* as it exists (its RunTask has not returned from a pool without
\* workers), never wraps round.
C23_NeverNegative ==
    \A k \in 1..ncalls :
        callinfo[k].block =>
            /\ DecrementsOf(k, callinfo[k].numtimes) <= callinfo[k].numtimes
            /\ \A id \in TasksOf(k) :
                 /\ stat[id].decW + stat[id].decF <= 1
                 /\ stat[id].decW + stat[id].decF <= stat[id].inv
            /\ (thread_count >= 1 \/ ~callinfo[k].returned)
                  => blockwait[k] <= callinfo[k].numtimes

\* of the two tasks of a blocking call one returned TR_REQUEUE and was
\* decremented for by Flush, the other by a worker; both decrements are stored
C23_Witness ==
    \E k \in 1..ncalls : \E id, jd \in TasksOf(k) :
        /\ callinfo[k].block /\ thread_count >= 1
        /\ stat[id].requeue = 1 /\ stat[id].decF = 1
        /\ stat[jd].decW = 1
        /\ blockwait[k] = 0

\* --------------------------------------------------------------- C24
\* C24: on a pool with workers that is neither purged nor released, where
\* every callback returns and every task comes to return TR_OK, a RunTask
\* with block = true returns in the end under fair scheduling.
C24_BlockingRunTaskReturns ==
    \A k \in Calls :
        (k <= ncalls /\ callinfo[k].block) ~> callinfo[k].returned

\* diagnostic: the same on a pool with one worker, where no two decrements
\* of a blockwait overlap
C24_OneWorker ==
    \A k \in Calls :
        (thread_count = 1 /\ k <= ncalls /\ callinfo[k].block) ~> callinfo[k].returned

\* --------------------------------------------------------------- C25
\* the worker is in its GetNextTask loop (the spec's Draining)
Draining(w) == w \in Workers /\ wpc[w] \in {"get", "call", "requeue", "decr", "decw"}

\* a RunTask has pushed its tasks and is about to call ReleaseSemaphore
Signalling(c) == cpc[c] = "rt_signal"

\* every task in m_TaskList leaves it again (dequeued, or purged)
EventuallyTaken ==
    \A id \in TaskIds :
        (id \in SeqToSet(Ids(m_TaskList))) ~> (id \notin SeqToSet(Ids(m_TaskList)))

\* as the claim has it: C25 without the RunTask between its push_back loop
\* and its ReleaseSemaphore
C25_NoLostWakeup_AsClaimed ==
    /\ []((thread_count >= 1 /\ ~Released /\ m_TaskList # <<>>)
            => \/ \E w \in Threads : Draining(w)
               \/ m_hSemaphores[TS_RUN] > 0)
    /\ EventuallyTaken

\* C25: no wake-up is lost: on a pool with workers that is not released,
\* while m_TaskList is not empty a worker is in its GetNextTask loop, or
\* TS_RUN has a pending count, or a RunTask that has pushed is about to
\* release TS_RUN; so under fair scheduling every queued task (requeued
\* ones and those of a RunTask that found TS_RUN at its maximum included)
\* is dequeued in the end unless it is purged.
C25_NoLostWakeup ==
    /\ []((thread_count >= 1 /\ ~Released /\ m_TaskList # <<>>)
            => \/ \E w \in Threads : Draining(w)
               \/ m_hSemaphores[TS_RUN] > 0
               \/ \E c \in Clients : Signalling(c))
    /\ EventuallyTaken

\* two RunTask calls were made, one task was requeued, nothing was purged
\* and every task has left m_TaskList by a dequeue, the requeued one twice
C25_Witness ==
    /\ ncalls = 2
    /\ m_TaskList = <<>>
    /\ purged = {}
    /\ \A k \in 1..ncalls : \A id \in TasksOf(k) : stat[id].deq >= 1
    /\ \E k \in 1..ncalls : \E id \in TasksOf(k) :
          stat[id].requeue = 1 /\ stat[id].deq = 2
    /\ \A id \in TasksOf(2) : stat[id].deq >= 1 /\ stat[id].done = 1

\* --------------------------------------------------------------- C26
\* C26: once Release has been called on a pool with workers, under fair
\* scheduling (every callback returning, no task returning TR_REQUEUE for
\* ever) every worker leaves WorkerThreadProc and Release returns; a
\* worker leaves only from its wait, so one that was in its GetNextTask
\* loop when TS_QUIT was raised first runs that loop to an empty queue,
\* giving up the task it holds.
C26_ReleaseTerminates ==
    /\ (\E c \in Clients : cpc[c] = "rel_quit")
          ~> (ReleaseDone /\ \A w \in Workers : wpc[w] = "term")
    /\ [][\A w \in Workers :
            (wpc[w] # "term" /\ wpc'[w] = "term")
                => (wpc[w] = "parked" /\ task[w] = NoTask)]_vars
    /\ [][\A w \in Workers :
            (Released /\ Draining(w) /\ wpc'[w] = "parked") => m_TaskList = <<>>]_vars

\* TS_QUIT has been raised on a pool with two workers: one has left, the
\* other is still in its loop, requeueing the task it holds
C26_Witness ==
    /\ \E c \in Clients : cpc[c] = "rel_join"
    /\ \E w, v \in Workers : wpc[w] = "term" /\ wpc[v] = "requeue"

Made(t) ==
    /\ t.m_Call \in 1..ncalls
    /\ t.m_TaskNumber \in 0..(callinfo[t.m_Call].numtimes - 1)
    /\ t.m_pActionRef = (IF callinfo[t.m_Call].block THEN t.m_Call ELSE NULL)

\* the tasks whose callback a thread may invoke on its next step, as the
\* thread holds them
Invocable ==
    {task[w] : w \in {v \in Workers : wpc[v] = "call"}}
        \cup (IF (\E c \in Clients : cpc[c] = "fl_loop") /\ it <= Len(m_TaskList)
              THEN {FlushTask(m_TaskList, it)} ELSE {})

\* C28: RunTask appends exactly numtimes tasks, numbered 0..numtimes-1 in
\* that order, each with the call's callback and parameters; every task
\* in m_TaskList or in a worker's hands is still as RunTask made it, and
\* every invocation, the ones after TR_RERUN and TR_REQUEUE too, passes
\* the parameters and the number of such a task.
C28_TaskArguments ==
    /\ [][ncalls' # ncalls =>
            LET k == ncalls'
                n == callinfo'[k].numtimes
                ref == IF callinfo'[k].block THEN k ELSE NULL
            IN m_TaskList' = m_TaskList \o [i \in 1..n |-> STaskInfo(k, i - 1, ref)]]_vars
    /\ [](\A i \in 1..Len(m_TaskList) : Made(m_TaskList[i]))
    /\ [](\A w \in Workers : Draining(w) /\ wpc[w] # "get" => Made(task[w]))
    /\ [][\A id \in TaskIds :
            stat'[id].inv # stat[id].inv =>
                /\ stat'[id].inv = stat[id].inv + 1
                /\ \E t \in Invocable : Id(t) = id /\ Made(t)]_vars
    /\ [][\A w \in Workers :
            (wpc[w] = "call" /\ wpc'[w] \in {"call", "requeue", "decr", "decw"})
                => task'[w] = task[w]]_vars
    /\ [][\A w \in Workers :
            (wpc[w] = "requeue" /\ wpc'[w] # "requeue")
                => m_TaskList' = Append(m_TaskList, task[w])]_vars

\* both tasks of a RunTask with numtimes = 2 have returned TR_OK at their
\* second invocation, number 0 after TR_RERUN and number 1 after TR_REQUEUE
C28_Witness ==
    \E k \in 1..ncalls :
        /\ callinfo[k].numtimes = 2
        /\ stat[<<k, 0>>].rerun = 1 /\ stat[<<k, 0>>].inv = 2 /\ stat[<<k, 0>>].done = 1
        /\ stat[<<k, 1>>].requeue = 1 /\ stat[<<k, 1>>].inv = 2 /\ stat[<<k, 1>>].done = 1
        /\ stat[<<k, 1>>].deq = 2

\* --------------------------------------------------------------- C29
\* C29: a requeued task goes to the back of m_TaskList: the tasks that
\* were queued when it was requeued have all left the queue (dequeued, or
\* cleared) by the time it is dequeued again, and while it waits it stands
\* behind each of them; so a task that requeues itself cannot overtake
\* the tasks queued before its requeue.
C29_RequeueToTail ==
    /\ [][\A w \in Workers :
            RequeueStep(w) => m_TaskList' = m_TaskList \o <<task[w]>>]_vars
    /\ [][\A w \in Workers :
            DequeueStep(w) => ahead[Id(task'[w])] = {}]_vars
    /\ [](\A i \in 1..Len(m_TaskList) :
            \A jd \in ahead[Id(m_TaskList[i])] :
                \E j \in 1..(i - 1) : Id(m_TaskList[j]) = jd)

\* a task was requeued behind another task and has been dequeued again,
\* after that other task was dequeued
C29_Witness ==
    \E id, jd \in TaskIds :
        /\ id # jd
        /\ stat[id].requeue = 1 /\ stat[id].deq = 2
        /\ stat[jd].deq = 1 /\ stat[jd].inv = 0
        /\ \E w \in Workers : HeldBy(w, id) /\ wpc[w] = "call"
        /\ \E w \in Workers : HeldBy(w, jd) /\ wpc[w] = "call"

\* --------------------------------------------------------------- C30
\* Flush stores its decrement for the task it is at
FlushStoreStep(c) == cpc[c] = "fl_decw" /\ cpc'[c] = "fl_loop"

\* Flush has run every task of call k, each returned TR_OK to it
FlushedToDone(k) ==
    \A id \in TasksOf(k) : stat[id].decF = 1 /\ stat[id].done = 1

\* no worker has stored a decrement of blockwait k
NoWorkerDecrement(k) == \A id \in TasksOf(k) : stat[id].decW = 0

\* C30: for a task with an m_pActionRef that returned TR_OK to Flush, Flush
\* lowers the blockwait pointed at by exactly one; so once Flush has run
\* all numtimes tasks of a RunTask with block = true, all returning TR_OK,
\* that blockwait is 0.
C30_FlushDecrementsByOne ==
    /\ [][\A c \in Clients :
            LET t == FlushTask(m_TaskList, it) IN
            (FlushStoreStep(c) /\ stat[Id(t)].done = 1)
                => blockwait'[t.m_pActionRef] = blockwait[t.m_pActionRef] - 1]_vars
    /\ [](\A k \in 1..ncalls :
            (callinfo[k].block /\ FlushedToDone(k)) => blockwait[k] = 0)

\* diagnostic: the same while the blockwait exists (its RunTask has not
\* returned) and only Flush has decremented it
C30_LiveUncontended ==
    /\ [][\A c \in Clients :
            LET t == FlushTask(m_TaskList, it)
                k == t.m_pActionRef IN
            (/\ FlushStoreStep(c) /\ stat[Id(t)].done = 1
             /\ ~callinfo[k].returned
             /\ NoWorkerDecrement(k))
                => blockwait'[k] = blockwait[k] - 1]_vars
    /\ [](\A k \in 1..ncalls :
            (callinfo[k].block /\ FlushedToDone(k) /\ thread_count >= 1)
                => blockwait[k] = 0)

\* --------------------------------------------------------------- C31
\* the task has been made by a RunTask call
Submitted(id) == id[1] \in 1..ncalls /\ id \in TasksOf(id[1])

\* push_backs of the task so far: the one of RunTask and one per
\* TR_REQUEUE a worker got and has handled
Enqueues(id) ==
    1 + (stat[id].requeue - stat[id].frq)
      - Cardinality({w \in Workers : HeldBy(w, id) /\ wpc[w] = "requeue"})

\* executions of the task begun so far: by a worker that dequeued it, or
\* by Flush where it lies
Executions(id) == stat[id].deq + stat[id].fl

\* entries of the task in m_TaskList that are still to be executed
Waiting(id) ==
    {i \in Entries(id) :
        /\ i >= it
        /\ ~(i = it /\ \E c \in Clients : cpc[c] \in {"fl_decr", "fl_decw"})}

\* m_TaskList is empty and no thread is at work on a task
Drained ==
    /\ m_TaskList = <<>>
    /\ \A w \in Workers : ~Draining(w) \/ wpc[w] = "get"

\* C31: while nothing has been purged the queue neither loses nor
\* duplicates a task: GetNextTask returns the task it removes; a task is
\* never waiting twice nor waiting while a worker holds it; every
\* push_back of a task, RunTask's or a requeue's, is answered by exactly
\* one execution, so at every moment the push_backs of a task are its
\* executions plus its waiting entry, and once the queue has drained each
\* task was executed as often as it was enqueued.
C31_NothingLostOrDuplicated ==
    /\ [][\A w \in Workers :
            DequeueStep(w) =>
                /\ task'[w] = Head(m_TaskList)
                /\ m_TaskList' = Tail(m_TaskList)]_vars
    /\ [](purged = {} =>
            \A id \in TaskIds :
                IF Submitted(id)
                THEN /\ Enqueues(id) = Executions(id) + Cardinality(Waiting(id))
                     /\ Cardinality(Waiting(id))
                          + Cardinality({w \in Workers : HeldBy(w, id)}) <= 1
                     /\ Drained => (Executions(id) = Enqueues(id) /\ Executions(id) >= 1)
                ELSE Entries(id) = {} /\ Executions(id) = 0)

\* the queue has drained with nothing purged: one task was enqueued twice
\* and dequeued twice, another was executed by Flush
C31_Witness ==
    /\ Drained
    /\ purged = {}
    /\ \E id, jd \in TaskIds :
          /\ Submitted(id) /\ Submitted(jd)
          /\ stat[id].deq = 2 /\ stat[id].fl = 0 /\ stat[id].requeue = 1
          /\ stat[jd].fl = 1 /\ stat[jd].deq = 0

\* --------------------------------------------------------------- C32
\* C32: a purge, PurgeAllPendingTasks or the one of Release, does not
\* reach the task a worker is executing: the worker and its task are left
\* as they are and the task is not among the purged; if its callback then
\* returns TR_REQUEUE the worker pushes it back, m_TaskList is not empty
\* again, the worker stays in its loop rather than going to its wait, and
\* the task is dequeued and invoked once more (unless a later purge takes
\* it from the queue). A worker in its loop sees TS_QUIT only after it has
\* found m_TaskList empty, so each requeue puts that off.
C32_RequeueSurvivesPurge ==
    /\ [][PurgeStep => (task' = task /\ wpc' = wpc)]_vars
    /\ [](\A w \in Workers : \A id \in TaskIds : HeldBy(w, id) => id \notin purged)
    /\ [][\A w \in Workers :
            RequeueStep(w) =>
                /\ m_TaskList' # <<>>
                /\ m_TaskList'[Len(m_TaskList')] = task[w]
                /\ wpc'[w] = "get"]_vars
    /\ [][\A w \in Workers :
            Draining(w) =>
                /\ wpc'[w] # "term"
                /\ wpc'[w] = "parked" => m_TaskList = <<>>]_vars
    /\ \A id \in TaskIds :
          (\E w \in Workers : HeldBy(w, id) /\ wpc[w] = "requeue")
              ~> (id \in purged \/ (stat[id].deq = 2 /\ stat[id].inv = 2))

\* task 1 of a call was purged undequeued while a worker held task 0 of
\* that call; task 0, its callback returning TR_REQUEUE, was pushed back
\* after the purge, dequeued again and invoked again
C32_Witness ==
    \E k \in 1..ncalls :
        /\ callinfo[k].numtimes = 2
        /\ <<k, 1>> \in purged /\ stat[<<k, 1>>].deq = 0
        /\ <<k, 0>> \notin purged
        /\ stat[<<k, 0>>].requeue = 1 /\ stat[<<k, 0>>].deq = 2 /\ stat[<<k, 0>>].inv = 2

\* --------------------------------------------------------------- C33
\* the client inside Flush
Flusher == CHOOSE c \in Clients : cpc[c] \in {"fl_loop", "fl_decr", "fl_decw"}

\* Flush has invoked the entry at index i of m_TaskList
FlushDid(i) ==
    i < it \/ (i = it /\ \E c \in Clients : cpc[c] \in {"fl_decr", "fl_decw"})

\* C33: Flush owns m_csTaskList from before its first callback until it
\* has cleared m_TaskList: meanwhile no worker dequeues or requeues and no
\* RunTask or purge of another thread changes m_TaskList, so what Flush
\* executes is exactly what m_TaskList held when Flush entered, each entry
\* once, and a task another thread submits during the Flush is pushed
\* only after it and stays queued when Flush has returned.
C33_FlushHoldsLock ==
    /\ [](InFlush => m_csTaskList = Flusher)
    /\ [][(InFlush /\ InFlush') =>
            /\ m_TaskList' = m_TaskList
            /\ ncalls' = ncalls
            /\ purged' = purged
            /\ \A w \in Workers : ~DequeueStep(w) /\ ~RequeueStep(w)]_vars
    /\ [](InFlush =>
            \A i \in 1..Len(m_TaskList) :
                stat[Id(m_TaskList[i])].fl = (IF FlushDid(i) THEN 1 ELSE 0))
    /\ [][FlushReturns =>
            /\ \A i \in 1..Len(m_TaskList) : stat[Id(m_TaskList[i])].fl = 1
            /\ m_TaskList' = <<>>
            /\ m_csTaskList' = NULL]_vars
    /\ [](~InFlush =>
            \A i \in 1..Len(m_TaskList) : stat[Id(m_TaskList[i])].fl = 0)
    /\ [](\A id \in TaskIds : stat[id].fl <= 1)

\* Flush has returned on a pool with workers: it executed a task of one
\* RunTask call, and a task another call pushed afterwards is queued,
\* not executed by that Flush, a worker being in its loop all the while
C33_Witness ==
    /\ ~InFlush
    /\ thread_count >= 1
    /\ \E id, jd \in TaskIds :
          /\ id[1] # jd[1]
          /\ stat[id].fl = 1 /\ stat[id].deq = 0
          /\ InQueue(jd) /\ stat[jd].fl = 0
    /\ \E w \in Workers : wpc[w] = "get"

====
